---- MODULE Spec2Model ----
(***************************************************************************)
(* A model of quick_deployments: the filesystem helpers of                 *)
(* src/misc_functions.py (check_isdir, list_recursively, get_parent_dir)   *)
(* and the sites of src/basic_nginx_site.py (BasicNginXSite, its variants  *)
(* and the mount staging of CopyFoldersToMounts).                          *)
(*                                                                         *)
(* A filesystem is a function from the paths that exist to their nodes.    *)
(* A path is the sequence of its components; <<>> is the root directory.   *)
(***************************************************************************)
EXTENDS Integers, Sequences, FiniteSets, TLC

VARIABLES fs, hist, networks, containers, name, outcome, calls

vars == <<fs, hist, networks, containers, name, outcome, calls>>

(***************************************************************************)
(* Bounds of the model.                                                    *)
(***************************************************************************)
\* number of distinct file contents
NumContents == 2
\* number of filesystem operations in one run
MaxCalls == 2
\* number of get_mount_for calls in one run
MaxStagings == 1
\* number of CopyFoldersToMounts constructions in one run
MaxSites == 1
\* longest instance name, in characters
MaxNameLen == 4
\* number of calls on the sites and the docker engine in one run
MaxRuns == 3

Contents == 1..NumContents
Names == {"a", "b"}

(***************************************************************************)
(* Nodes of the filesystem.                                                *)
(***************************************************************************)
DIR == [kind |-> "dir", bytes |-> 0, members |-> {}]
File(c) == [kind |-> "file", bytes |-> c, members |-> {}]
Tar(m) == [kind |-> "tar", bytes |-> 0, members |-> m]

\* what a call gave: the exception it raised ("ok" when it returned) and
\* the value it returned
NoOutcome == [exc |-> "none", value |-> <<>>]
Returns(v) == [exc |-> "ok", value |-> v]

\* src='' of check_isdir: the empty string
NoSrc == <<>>

Parent(p) == SubSeq(p, 1, Len(p) - 1)
Basename(p) == p[Len(p)]
IsPrefix(p, q) == Len(p) <= Len(q) /\ SubSeq(q, 1, Len(p)) = p
Suffix(p, q) == SubSeq(q, Len(p) + 1, Len(q))
Prefixes(p) == {SubSeq(p, 1, n) : n \in 0..Len(p)}
Under(f, p) == {q \in DOMAIN f : IsPrefix(p, q)}
Put(f, p, n) == [q \in (DOMAIN f) \cup {p} |-> IF q = p THEN n ELSE f[q]]
Drop(f, S) == [q \in (DOMAIN f) \ S |-> f[q]]

(***************************************************************************)
(* The os / os.path / shutil calls the code makes.                         *)
(***************************************************************************)
access(f, p) == p \in DOMAIN f
isdir(f, p) == p \in DOMAIN f /\ f[p].kind = "dir"
listdir(f, p) == {q \in DOMAIN f : Len(q) = Len(p) + 1 /\ IsPrefix(p, q)}

\* os.makedirs(p): every missing directory down to p; p itself must not exist
makedirs(f, p) ==
  IF access(f, p) THEN [fs |-> f, exc |-> "FileExistsError"]
  ELSE IF \E q \in Prefixes(p) : access(f, q) /\ ~isdir(f, q)
    THEN [fs |-> f, exc |-> "NotADirectoryError"]
  ELSE [fs |-> [q \in (DOMAIN f) \cup Prefixes(p) |->
                  IF q \in DOMAIN f THEN f[q] ELSE DIR],
        exc |-> "ok"]

\* shutil.copytree once os.makedirs(dst) has given made: dst receives every
\* node below src
copy_nodes(made, f, src, dst) ==
  IF made.exc # "ok" THEN made
  ELSE [fs |-> [q \in (DOMAIN made.fs) \cup {dst \o Suffix(src, s) : s \in Under(f, src)} |->
                  IF IsPrefix(dst, q) /\ (src \o Suffix(dst, q)) \in DOMAIN f
                    THEN f[src \o Suffix(dst, q)]
                    ELSE made.fs[q]],
        exc |-> "ok"]

\* a copy that takes the entries directly below src only
copy_entries(made, f, src, dst) ==
  IF made.exc # "ok" THEN made
  ELSE [fs |-> [q \in (DOMAIN made.fs)
                       \cup {dst \o Suffix(src, s) : s \in listdir(f, src)} |->
                  IF IsPrefix(dst, q) /\ q # dst /\ (src \o Suffix(dst, q)) \in DOMAIN f
                    THEN f[src \o Suffix(dst, q)]
                    ELSE made.fs[q]],
        exc |-> "ok"]

\* a copytree that does not descend into subdirectories
copytree_shallow(f, src, dst) == copy_entries(makedirs(f, dst), f, src, dst)

\* shutil.copytree(src, dst): dst is created (with its parents) and receives
\* every node below src
copytree(f, src, dst) == copy_nodes(makedirs(f, dst), f, src, dst)

\* shutil.copy(src, dstdir): the file src lands in dstdir under its own name
copy(f, src, dstdir) ==
  IF ~access(f, src) THEN [fs |-> f, exc |-> "FileNotFoundError"]
  ELSE IF isdir(f, src) THEN [fs |-> f, exc |-> "IsADirectoryError"]
  ELSE [fs |-> Put(f, dstdir \o <<Basename(src)>>, f[src]), exc |-> "ok"]

\* os.removedirs(p): rmdir p, then every parent that this leaves empty
RECURSIVE prune(_, _)
prune(f, p) ==
  IF p = <<>> \/ ~isdir(f, p) \/ listdir(f, p) # {} THEN f
  ELSE prune(Drop(f, {p}), Parent(p))

removedirs(f, p) ==
  IF ~isdir(f, p) THEN [fs |-> f, exc |-> "FileNotFoundError"]
  ELSE IF listdir(f, p) # {} THEN [fs |-> f, exc |-> "OSError"]
  ELSE [fs |-> prune(Drop(f, {p}), Parent(p)), exc |-> "ok"]

\* shutil.rmtree(p)
rmtree(f, p) == Drop(f, Under(f, p))

(***************************************************************************)
(* misc_functions.list_recursively: the files below f, or f itself when it *)
(* is no directory (whether or not it exists).                             *)
(***************************************************************************)
\* a listing that does not descend into subdirectories
list_flat(f, p) ==
  IF ~isdir(f, p) THEN {p}
  ELSE {q \in listdir(f, p) : f[q].kind # "dir"}

list_recursively(f, p) ==
  IF ~isdir(f, p) THEN {p}
  ELSE {q \in Under(f, p) : f[q].kind # "dir"}

(***************************************************************************)
(* misc_functions.check_isdir.  ret is "True", "False" or the exception.   *)
(***************************************************************************)
\* "return True" after a copy, or the exception the copy raised
copied(c) == [fs |-> c.fs, ret |-> IF c.exc = "ok" THEN "True" ELSE c.exc]
raised(e, f) == [fs |-> f, ret |-> e]

\* lines 114-118: mkdir has given m; copy the single file src, return True
made_dir(m, filepath, src) ==
  IF m.exc # "ok" THEN raised(m.exc, m.fs)
  ELSE IF src # NoSrc THEN copied(copy(m.fs, src, filepath))
  ELSE [fs |-> m.fs, ret |-> "True"]

\* lines 122-124: removedirs has given r; copy the tree src, return True
removed_dir(r, filepath, src) ==
  IF r.exc # "ok" THEN raised(r.exc, r.fs)
  ELSE copied(copytree(r.fs, src, filepath))

\* check_isdir without the test that the directory is empty
check_isdir_clobber(f, filepath, src) ==
  IF ~isdir(f, filepath) THEN
    IF access(f, filepath) THEN raised("FileExistsError", f)
    ELSE IF src # NoSrc /\ isdir(f, src) THEN copied(copytree(f, src, filepath))
    ELSE made_dir(makedirs(f, filepath), filepath, src)
  ELSE IF src # NoSrc THEN
    IF isdir(f, src) THEN removed_dir(removedirs(f, filepath), filepath, src)
    ELSE copied(copy(f, src, filepath))
  ELSE [fs |-> f, ret |-> "False"]

\* check_isdir that replaces a file standing at filepath
check_isdir_overwrite(f, filepath, src) ==
  IF ~isdir(f, filepath) THEN
    IF src # NoSrc /\ isdir(f, src)
      THEN copied(copytree(Drop(f, {filepath}), src, filepath))
    ELSE made_dir(makedirs(Drop(f, {filepath}), filepath), filepath, src)
  ELSE IF listdir(f, filepath) = {} /\ src # NoSrc THEN
    IF isdir(f, src) THEN removed_dir(removedirs(f, filepath), filepath, src)
    ELSE copied(copy(f, src, filepath))
  ELSE [fs |-> f, ret |-> "False"]

\* check_isdir whose last line returns True
check_isdir_true(f, filepath, src) ==
  IF ~isdir(f, filepath) THEN
    IF access(f, filepath) THEN raised("FileExistsError", f)
    ELSE IF src # NoSrc /\ isdir(f, src) THEN copied(copytree(f, src, filepath))
    ELSE made_dir(makedirs(f, filepath), filepath, src)
  ELSE IF listdir(f, filepath) = {} /\ src # NoSrc THEN
    IF isdir(f, src) THEN removed_dir(removedirs(f, filepath), filepath, src)
    ELSE copied(copy(f, src, filepath))
  ELSE [fs |-> f, ret |-> "True"]

check_isdir(f, filepath, src) ==
  IF ~isdir(f, filepath) THEN
    IF access(f, filepath) THEN raised("FileExistsError", f)
    ELSE IF src # NoSrc /\ isdir(f, src) THEN copied(copytree(f, src, filepath))
    ELSE made_dir(makedirs(f, filepath), filepath, src)
  ELSE IF listdir(f, filepath) = {} /\ src # NoSrc THEN
    IF isdir(f, src) THEN removed_dir(removedirs(f, filepath), filepath, src)
    ELSE copied(copy(f, src, filepath))
  ELSE [fs |-> f, ret |-> "False"]

(***************************************************************************)
(* Paths of the deployment (src/config.py, get_parent_dir, get_mount_for). *)
(***************************************************************************)
QuickDeployments == <<"usr", "share", "quick_deployments">>
StaticDir == QuickDeployments \o <<"static">>
InstanceDir == StaticDir \o <<"site1">>
WebrootPath == InstanceDir \o <<"webroot">>
ConfdirPath == InstanceDir \o <<"configuration">>
default_nginx_webroot == QuickDeployments \o <<"nginx_default", "webroot">>
default_nginx_config == QuickDeployments \o <<"nginx_default", "configuration">>

(***************************************************************************)
(* The trees a run may find on disk: every well-formed tree over Names, a  *)
(* source up to two levels deep (one entry per subdirectory), a            *)
(* destination up to one level deep.  The empty function is the tree that  *)
(* does not exist.                                                         *)
(***************************************************************************)
NONE == [kind |-> "none", bytes |-> 0, members |-> {}]
Rel1 == {<<>>} \cup {<<x>> : x \in Names}
Rel2 == Rel1 \cup {<<x, "a">> : x \in Names}
Shapes(rel) ==
  {t \in [rel -> {NONE, DIR} \cup {File(c) : c \in Contents}] :
     \A p \in rel : (p # <<>> /\ t[p] # NONE) => t[Parent(p)] = DIR}
Trees(rel) ==
  {[p \in {q \in rel : t[q] # NONE} |-> t[p]] : t \in Shapes(rel)}
SrcTrees == Trees(Rel2)
DstTrees == Trees(Rel1)

\* the tree below p, by relative path
Tree(f, p) == [r \in {Suffix(p, q) : q \in Under(f, p)} |-> f[p \o r]]
\* f with the tree t placed at p (the parents of p exist)
Place(f, p, t) ==
  [q \in (DOMAIN f) \cup {p \o r : r \in DOMAIN t} |->
     IF IsPrefix(p, q) /\ Suffix(p, q) \in DOMAIN t THEN t[Suffix(p, q)] ELSE f[q]]
Dirs(S) == [q \in UNION {Prefixes(p) : p \in S} |-> DIR]

\* what exists of the instance's directory before a run
Layouts == {"none", "alone", "sibling"}
BaseFs(layout) ==
  Dirs({Parent(default_nginx_webroot)}
       \cup (IF layout = "none" THEN {} ELSE {InstanceDir})
       \cup (IF layout = "sibling" THEN {ConfdirPath} ELSE {}))

(***************************************************************************)
(* SpecDir: check_isdir on the instance's webroot, with the default        *)
(* webroot as source, and the operator's deletion of the directory         *)
(* (test_that_files_are_placed_if_not_present).                            *)
(***************************************************************************)
Event(op, filepath, src, pre, r) ==
  [op |-> op, filepath |-> filepath, src |-> src, pre |-> pre,
   post |-> r.fs, ret |-> r.ret]

InitDir ==
  /\ \E layout \in Layouts, dt \in DstTrees, st \in SrcTrees :
       /\ (layout = "none") => (dt = <<>>)
       /\ fs = Place(Place(BaseFs(layout), WebrootPath, dt),
                     default_nginx_webroot, st)
  /\ hist = <<>>
  /\ networks = {}
  /\ containers = {}
  /\ name = <<>>
  /\ outcome = NoOutcome
  /\ calls = <<>>

CheckIsdir(filepath, src) ==
  /\ Len(hist) < MaxCalls
  /\ LET r == check_isdir(fs, filepath, src) IN
       /\ fs' = r.fs
       /\ hist' = Append(hist, Event("check_isdir", filepath, src, fs, r))
  /\ UNCHANGED <<networks, containers, name, outcome, calls>>

Rmtree(filepath) ==
  /\ Len(hist) < MaxCalls
  /\ isdir(fs, filepath)
  /\ fs' = rmtree(fs, filepath)
  /\ hist' = Append(hist, Event("rmtree", filepath, NoSrc, fs,
                                [fs |-> rmtree(fs, filepath), ret |-> "None"]))
  /\ UNCHANGED <<networks, containers, name, outcome, calls>>

NextDir ==
  \/ \E src \in {NoSrc, default_nginx_webroot} : CheckIsdir(WebrootPath, src)
  \/ Rmtree(WebrootPath)

SpecDir == InitDir /\ [][NextDir]_vars

TypeOKDir ==
  /\ <<>> \in DOMAIN fs
  /\ \A p \in DOMAIN fs : p # <<>> => isdir(fs, Parent(p))

(***************************************************************************)
(* Claims about check_isdir (checked under SpecDir).                       *)
(***************************************************************************)
IsCall(h) == h.op = "check_isdir"
Returned(h) == h.ret \in {"True", "False"}
NonEmptyDir(f, p) == isdir(f, p) /\ listdir(f, p) # {}
EmptyDir(f, p) == isdir(f, p) /\ listdir(f, p) = {}
IsFile(f, p) == access(f, p) /\ ~isdir(f, p)
\* two calls in a row with the same arguments, the first of which returned
InARow(i) ==
  /\ i + 1 \in DOMAIN hist
  /\ IsCall(hist[i]) /\ IsCall(hist[i + 1])
  /\ hist[i].filepath = hist[i + 1].filepath
  /\ hist[i].src = hist[i + 1].src
  /\ Returned(hist[i])

\* C1: never-clobber -- a call on a destination that is a non-empty
\* directory leaves the tree below the destination as it was, whatever the
\* source is (none, absent, a directory, a single file).
C1_NeverClobber ==
  \A i \in DOMAIN hist :
    (IsCall(hist[i]) /\ NonEmptyDir(hist[i].pre, hist[i].filepath))
      => /\ Tree(hist[i].post, hist[i].filepath) = Tree(hist[i].pre, hist[i].filepath)
         /\ hist[i].post = hist[i].pre

C1_Witness ==
  \E i \in DOMAIN hist :
    /\ IsCall(hist[i]) /\ NonEmptyDir(hist[i].pre, hist[i].filepath)
    /\ hist[i].src # NoSrc
    /\ NonEmptyDir(hist[i].pre, hist[i].src)
    /\ Tree(hist[i].pre, hist[i].src) # Tree(hist[i].pre, hist[i].filepath)

C3_DestinationIsFile ==
  \A i \in DOMAIN hist :
    (IsCall(hist[i]) /\ IsFile(hist[i].pre, hist[i].filepath))
      => /\ hist[i].ret = "FileExistsError"
         /\ hist[i].post = hist[i].pre

C3_Witness ==
  \E i \in DOMAIN hist :
    /\ IsCall(hist[i]) /\ IsFile(hist[i].pre, hist[i].filepath)
    /\ hist[i].src # NoSrc /\ NonEmptyDir(hist[i].pre, hist[i].src)
    /\ hist[i].ret = "FileExistsError"

\* the directory that holds the single file p of f
SingleFile(f, p) == (<<>> :> DIR) @@ (<<Basename(p)>> :> f[p])

\* C4: on a missing or empty destination the call returns True and leaves a
\* directory equal to the source tree (directory source), holding exactly
\* the source file (file source), or empty (no source, missing destination).
C4_Materialize ==
  \A i \in DOMAIN hist :
    LET h == hist[i] IN
    (IsCall(h) /\ (~access(h.pre, h.filepath) \/ EmptyDir(h.pre, h.filepath)))
      => /\ (h.src # NoSrc /\ isdir(h.pre, h.src))
              => /\ h.ret = "True"
                 /\ Tree(h.post, h.filepath) = Tree(h.pre, h.src)
         /\ (h.src # NoSrc /\ IsFile(h.pre, h.src))
              => /\ h.ret = "True"
                 /\ Tree(h.post, h.filepath) = SingleFile(h.pre, h.src)
         /\ (h.src = NoSrc /\ ~access(h.pre, h.filepath))
              => /\ h.ret = "True"
                 /\ Tree(h.post, h.filepath) = (<<>> :> DIR)
         /\ (h.src # NoSrc) => Tree(h.post, h.src) = Tree(h.pre, h.src)

\* an empty destination replaced by a source tree with a nested file
C4_Witness ==
  \E i \in DOMAIN hist :
    LET h == hist[i] IN
    /\ IsCall(h) /\ EmptyDir(h.pre, h.filepath)
    /\ h.src # NoSrc /\ isdir(h.pre, h.src)
    /\ \E q \in Under(h.pre, h.src) : Len(q) = Len(h.src) + 2
    /\ h.ret = "True"

\* C5 as stated: no call returns False.
C5_AlwaysTrue ==
  \A i \in DOMAIN hist : IsCall(hist[i]) => hist[i].ret # "False"

\* the directories of a filesystem
DirsOf(f) == {p \in DOMAIN f : f[p].kind = "dir"}

\* C21 as stated: a call of check_isdir that raises leaves the directories
\* that existed before it, no more and no fewer.
C21_NoDanglingDirectory ==
  \A i \in DOMAIN hist :
    (IsCall(hist[i]) /\ ~Returned(hist[i]))
      => DirsOf(hist[i].post) = DirsOf(hist[i].pre)

(***************************************************************************)
(* SpecName: misc_functions.get_parent_dir.  A string is the sequence of   *)
(* its pieces: "/" , "." and letters for a name, whole words for the       *)
(* literals of the code.                                                   *)
(***************************************************************************)
sep == "/"
NameChars == {"a", ".", sep}
NameStrings == UNION {[1..n -> NameChars] : n \in 0..MaxNameLen}

\* posixpath.join(a, b)
getpath(a, b) ==
  IF b # <<>> /\ b[1] = sep THEN b
  ELSE IF a = <<>> \/ a[Len(a)] = sep THEN a \o b
  ELSE a \o <<sep>> \o b

get_parent_dir(n) ==
  getpath(getpath(getpath(getpath(getpath(<<sep>>, <<"usr">>), <<"share">>),
                          <<"quick_deployments">>), <<"static">>), n)

\* the components of a path string, and the path they resolve to
RECURSIVE Split(_, _, _)
Split(s, i, cur) ==
  IF i > Len(s) THEN <<cur>>
  ELSE IF s[i] = sep THEN <<cur>> \o Split(s, i + 1, <<>>)
  ELSE Split(s, i + 1, Append(cur, s[i]))
RECURSIVE Resolve(_, _, _)
Resolve(cs, i, acc) ==
  IF i > Len(cs) THEN acc
  ELSE IF cs[i] = <<>> \/ cs[i] = <<".">> THEN Resolve(cs, i + 1, acc)
  ELSE IF cs[i] = <<".", ".">>
    THEN Resolve(cs, i + 1, IF acc = <<>> THEN acc ELSE Parent(acc))
  ELSE Resolve(cs, i + 1, Append(acc, cs[i]))
realpath(s) == Resolve(Split(s, 1, <<>>), 1, <<>>)

InitName ==
  /\ fs = BaseFs("none")
  /\ hist = <<>>
  /\ networks = {}
  /\ containers = {}
  /\ name = <<>>
  /\ outcome = NoOutcome
  /\ calls = <<>>

GetParentDir(n) ==
  /\ name' = n
  /\ outcome' = Returns(get_parent_dir(n))
  /\ UNCHANGED <<fs, hist, networks, containers, calls>>

NextName == \E n \in NameStrings : GetParentDir(n)

SpecName == InitName /\ [][NextName]_vars

(***************************************************************************)
(* Claims about get_parent_dir (checked under SpecName).                   *)
(***************************************************************************)
HasSeparator(n) == \E i \in DOMAIN n : n[i] = sep
IsTraversal(n) == HasSeparator(n) \/ n = <<".", ".">> \/ n = <<".">>
StaticComponents == <<<<"usr">>, <<"share">>, <<"quick_deployments">>, <<"static">>>>
DirectChildOfStatic(s) ==
  LET r == realpath(s) IN
  /\ Len(r) = Len(StaticComponents) + 1
  /\ Parent(r) = StaticComponents

\* C6 as stated: a name with a path separator or a traversal component is
\* refused with an invalid-name error, and every path returned (for a name
\* that is not empty) is a direct child of /usr/share/quick_deployments/static.
C6_InvalidNameRejected ==
  (outcome.exc # "none") =>
    /\ IsTraversal(name) => outcome.exc = "InvalidName"
    /\ (outcome.exc = "ok" /\ name # <<>>) => DirectChildOfStatic(outcome.value)

(***************************************************************************)
(* SpecStage: CopyFoldersToMounts.get_mount_for.                           *)
(***************************************************************************)
NginxHtml == <<"usr", "share", "nginx", "html">>
EtcNginx == <<"etc", "nginx">>
TmpRoot == <<"tmp", "quick_deployments">>
tmpstore == TmpRoot \o <<"tmpstore">>

\* '%s.tar' % hash_of_str(mount_point)[:15]: the first 15 hex digits of the
\* sha256 of each mount point of the model
ArchiveName(mp) ==
  CASE mp = NginxHtml -> "b1e1a8c19b30d7e.tar"
    [] mp = EtcNginx -> "2bbac1448fc8427.tar"
    [] mp = WebrootPath -> "9045e5d7de2ad2a.tar"
    [] mp = ConfdirPath -> "a9c1fc8fb5698d5.tar"
    [] mp = default_nginx_webroot -> "96867adb2bfa13e.tar"
    [] mp = default_nginx_config -> "f7a529dd50cf703.tar"
\* the path get_mount_for returns
ReturnedArchive(mp) == TmpRoot \o <<ArchiveName(mp)>>
\* the path the archive of a path source is opened at
WrittenArchive(mp) == tmpstore \o <<ArchiveName(mp)>>

\* a source: a path (str) or an open tarfile.TarFile with its members
StrSource(p) == [type |-> "str", path |-> p, members |-> {}]
TarSource(m) == [type |-> "TarFile", path |-> <<>>, members |-> m]
Member(n, b) == [name |-> n, bytes |-> b]
IncomingArchives ==
  { {Member(<<"a">>, 1)},
    {Member(<<"a">>, 1), Member(<<"b", "a">>, 1)} }

\* docker.types.Mount(target, source, type='bind', read_only=True)
Mount(target, source) ==
  [target |-> target, source |-> source, type |-> "bind", read_only |-> TRUE]
Staged(mnt, archive) == [mnt |-> mnt, archive |-> archive]
NoStaged == Staged(Mount(<<>>, <<>>), <<>>)

\* tf.add(f) for every f of files: the members of the archive
TarMembers(f, files) == {Member(q, f[q].bytes) : q \in files}
\* TarFile.extractall(root)
extractall(f, root, members) ==
  [q \in (DOMAIN f) \cup UNION {{root \o pre : pre \in Prefixes(m.name)} : m \in members} |->
     IF \E m \in members : root \o m.name = q
       THEN File((CHOOSE m \in members : root \o m.name = q).bytes)
       ELSE IF q \in DOMAIN f THEN f[q] ELSE DIR]

StageResult(f, exc, value) == [fs |-> f, exc |-> exc, value |-> value]

\* lines 318-322: the archive of a path source, opened (empty) in f
add_files(f, files, mount_point, result) ==
  IF \E q \in files : ~access(f, q)
    THEN StageResult(f, "FileNotFoundError", NoStaged)
    ELSE StageResult(Put(f, WrittenArchive(mount_point), Tar(TarMembers(f, files))),
                     "ok", result)

\* lines 336-338: the files of tmpstore are removed, then the directory
clean_tmpstore(rd, result) ==
  IF rd.exc # "ok" THEN StageResult(rd.fs, rd.exc, NoStaged)
  ELSE StageResult(rd.fs, "ok", result)

\* lines 328-335: the extracted files in e are written to a new archive
rearchive(e, mount_point, result) ==
  clean_tmpstore(
    removedirs(Drop(Put(e, ReturnedArchive(mount_point),
                        Tar(TarMembers(e, list_recursively(e, tmpstore)))),
                    list_recursively(e, tmpstore)),
               tmpstore),
    result)

\* lines 324-338: an incoming archive, os.makedirs(tmpstore) having given m
restage(m, source, mount_point, result) ==
  IF m.exc # "ok" THEN StageResult(m.fs, m.exc, NoStaged)
  ELSE rearchive(extractall(m.fs, tmpstore, source.members), mount_point, result)

\* lines 317-350, check_isdir(tmpstore) having given c
stage(c, source, mount_point, result) ==
  IF c.ret \notin {"True", "False"} THEN StageResult(c.fs, c.ret, NoStaged)
  ELSE IF source.type = "str" THEN
    add_files(Put(c.fs, WrittenArchive(mount_point), Tar({})),
              list_recursively(Put(c.fs, WrittenArchive(mount_point), Tar({})),
                               source.path),
              mount_point, result)
  ELSE restage(makedirs(c.fs, tmpstore), source, mount_point, result)

\* get_mount_for(source, destination, mount_point) on the filesystem f
get_mount_for(f, source, destination, mount_point) ==
  stage(check_isdir(f, tmpstore, NoSrc), source, mount_point,
        Staged(Mount(destination, mount_point), ReturnedArchive(mount_point)))

TmpLayouts == {"none", "root", "tmpstore", "file"}
TmpFs(f, layout) ==
  CASE layout = "none" -> f
    [] layout = "root" -> f @@ Dirs({TmpRoot})
    [] layout = "tmpstore" -> f @@ Dirs({tmpstore})
    [] layout = "file" -> Put(f @@ Dirs({TmpRoot}), tmpstore, File(1))

StageEvent(source, destination, mount_point, pre, r) ==
  [op |-> "get_mount_for", source |-> source, destination |-> destination,
   mount_point |-> mount_point, pre |-> pre, post |-> r.fs, exc |-> r.exc,
   value |-> r.value]

InitStage ==
  /\ \E layout \in {"alone"}, tl \in TmpLayouts,
        dt \in DstTrees, st \in SrcTrees :
       fs = TmpFs(Place(Place(BaseFs(layout), WebrootPath, dt),
                        default_nginx_webroot, st), tl)
  /\ hist = <<>>
  /\ networks = {}
  /\ containers = {}
  /\ name = <<>>
  /\ outcome = NoOutcome
  /\ calls = <<>>

GetMountFor(source, destination, mount_point) ==
  /\ Len(hist) < MaxStagings
  /\ LET r == get_mount_for(fs, source, destination, mount_point) IN
       /\ fs' = r.fs
       /\ hist' = Append(hist, StageEvent(source, destination, mount_point, fs, r))
  /\ UNCHANGED <<networks, containers, name, outcome, calls>>

StageSources ==
  {StrSource(default_nginx_webroot)} \cup {TarSource(m) : m \in IncomingArchives}
\* (destination, mount_point) as the docstring asks, and as __init__ passes them
StageTargets == {<<NginxHtml, WebrootPath>>, <<WebrootPath, NginxHtml>>}

NextStage ==
  \E source \in StageSources, t \in StageTargets : GetMountFor(source, t[1], t[2])

SpecStage == InitStage /\ [][NextStage]_vars

(***************************************************************************)
(* Claims about get_mount_for (checked under SpecStage).                   *)
(***************************************************************************)
\* the files of the source tree of a staging, as archive members
SourceMembers(h) ==
  TarMembers(h.pre, {q \in Under(h.pre, h.source.path) : h.pre[q].kind # "dir"})
IsTarAt(f, p) == access(f, p) /\ f[p].kind = "tar"
\* the destination (the host directory of the mount) holds nothing yet
FreshDestination(h) == Under(h.pre, h.mount_point) = {}
\* the destination holds the file of the source at q, with the same content
AlreadyThere(h, q) ==
  LET d == h.mount_point \o Suffix(h.source.path, q) IN
  /\ access(h.pre, d) /\ h.pre[d].kind = "file"
  /\ h.pre[d].bytes = h.pre[q].bytes

\* C7 as stated: after a staging that returned, for a fresh destination, the
\* path returned holds an archive whose members are exactly the files of the
\* source, each with the content it has in the source.
C7_ArchiveComplete ==
  \A i \in DOMAIN hist :
    LET h == hist[i] IN
    (h.exc = "ok" /\ h.source.type = "str" /\ FreshDestination(h))
      => /\ IsTarAt(h.post, h.value.archive)
         /\ h.post[h.value.archive].members = SourceMembers(h)

C20_TmpstoreScoped ==
  \A i \in DOMAIN hist :
    ~access(hist[i].pre, tmpstore) => ~access(hist[i].post, tmpstore)

(***************************************************************************)
(* SpecSite: the constructor of CopyFoldersToMounts.  The networks of the  *)
(* docker engine are records of an id and a name.                          *)
(***************************************************************************)
\* "%s_network" % name
NetworkName(n) ==
  CASE n = "site1" -> "site1_network"
    [] n = "xsite1" -> "xsite1_network"
Network(id, nm) == [id |-> id, name |-> nm]
\* the name filter of networks.list(names=[...]) matches a part of a name
NameFilterMatches(pattern, nm) ==
  \/ nm = pattern
  \/ pattern = "site1_network" /\ nm = "xsite1_network"
FreshId(nets) == 1 + Cardinality(nets)

NetResult(nets, exc, value) == [networks |-> nets, exc |-> exc, value |-> value]
\* lines 113-118: the networks the name filter finds
the_network(found, nets) ==
  IF Cardinality(found) # 1 THEN NetResult(nets, "AssertionError", Network(0, ""))
  ELSE NetResult(nets, "ok", CHOOSE net \in found : TRUE)

\* BasicNginXSite.get_network(name) with the networks nets
get_network(nets, n) ==
  IF NetworkName(n) \notin {net.name : net \in nets}
    THEN NetResult(nets \cup {Network(FreshId(nets), NetworkName(n))}, "ok",
                   Network(FreshId(nets), NetworkName(n)))
    ELSE the_network({net \in nets : NameFilterMatches(NetworkName(n), net.name)},
                     nets)

\* an optional argument: None, or a mapping
None == [isNone |-> TRUE, map |-> <<>>]
Some(m) == [isNone |-> FALSE, map |-> m]
\* len(x): None has no len()
len(x) == Cardinality(DOMAIN x.map)
\* tuple(d.keys())[0] of a mapping that is not empty
FirstKey(x) == CHOOSE k \in DOMAIN x.map : TRUE

\* what the constructor has done when it ends: the exception and the line of
\* the statement that raised it, the confdir it resolved, the mounts it staged
SiteResult(f, nets, exc, at, confdir, staged) ==
  [fs |-> f, networks |-> nets, exc |-> exc, at |-> at, confdir |-> confdir,
   staged |-> staged]

\* lines 267-269, the staging of the webroot having given w: the call of
\* get_mount_for for confdir passes two of its three arguments, so no
\* construction gets past line 267
stage_confdir(w, nets, confdir) ==
  IF w.exc # "ok" THEN SiteResult(w.fs, nets, w.exc, 262, confdir, <<>>)
  ELSE IF len(confdir) = 0
    THEN SiteResult(w.fs, nets, "IndexError", 268, confdir, <<w.value>>)
  ELSE SiteResult(w.fs, nets, "TypeError", 267, confdir, <<w.value>>)

\* lines 262-266, get_network having given net
stage_webroot(net, f, webroot, confdir) ==
  IF net.exc # "ok" THEN SiteResult(f, net.networks, net.exc, 261, confdir, <<>>)
  ELSE IF len(webroot) = 0
    THEN SiteResult(f, net.networks, "IndexError", 263, confdir, <<>>)
  ELSE stage_confdir(get_mount_for(f, webroot.map[FirstKey(webroot)],
                                   FirstKey(webroot), NginxHtml),
                     net.networks, confdir)

\* CopyFoldersToMounts.__init__(name, webroot, confdir, other_mounts)
CopyFoldersToMounts(f, nets, n, webroot, confdir, other_mounts) ==
  IF len(webroot) > 1 THEN SiteResult(f, nets, "ValueError", 250, confdir, <<>>)
  ELSE IF confdir.isNone THEN SiteResult(f, nets, "TypeError", 254, confdir, <<>>)
  ELSE IF len(confdir) > 1 THEN SiteResult(f, nets, "ValueError", 255, confdir, <<>>)
  ELSE stage_webroot(get_network(nets, n), f, webroot, confdir)

SiteEvent(n, webroot, confdir, other_mounts, pre, nets, r) ==
  [op |-> "CopyFoldersToMounts", name |-> n, webroot |-> webroot,
   confdir |-> confdir, other_mounts |-> other_mounts, pre |-> pre,
   pre_networks |-> nets, post |-> r.fs, post_networks |-> r.networks,
   exc |-> r.exc, at |-> r.at, resolved_confdir |-> r.confdir,
   staged |-> r.staged]

\* the default trees on disk: absent, empty, or files and a subdirectory
SiteTrees ==
  { <<>>,
    (<<>> :> DIR),
    (<<>> :> DIR) @@ (<<"a">> :> File(1)) @@ (<<"b">> :> DIR)
      @@ (<<"b", "a">> :> File(1)) }
SiteNetworks ==
  { {},
    {Network(1, "site1_network")},
    {Network(1, "xsite1_network")},
    {Network(1, "site1_network"), Network(2, "xsite1_network")},
    {Network(1, "site1_network"), Network(2, "site1_network")} }

WebrootArgs ==
  { Some(<<>>),
    Some(WebrootPath :> StrSource(default_nginx_webroot)),
    Some(WebrootPath :> TarSource({Member(<<"a">>, 1)})),
    Some((WebrootPath :> StrSource(default_nginx_webroot))
           @@ (ConfdirPath :> StrSource(default_nginx_config))) }
ConfdirArgs ==
  { None,
    Some(<<>>),
    Some(ConfdirPath :> StrSource(default_nginx_config)),
    Some((ConfdirPath :> StrSource(default_nginx_config))
           @@ (WebrootPath :> StrSource(default_nginx_webroot))) }
\* an extra mount with both fields, one whose destination is the webroot's
\* path in the container, and one without 'destination'
OtherMountArgs ==
  { None,
    Some(InstanceDir \o <<"extra">> :>
           [destination |-> <<"tmp", "test_folder_2">>,
            incoming_data |-> default_nginx_webroot]),
    Some(InstanceDir \o <<"extra">> :>
           [destination |-> NginxHtml,
            incoming_data |-> default_nginx_webroot]),
    Some(InstanceDir \o <<"extra">> :>
           [incoming_data |-> default_nginx_webroot]) }

InitSite ==
  /\ \E st \in SiteTrees, tl \in TmpLayouts :
       fs = TmpFs(Place(Place(BaseFs("none"), default_nginx_webroot, st),
                        default_nginx_config, st), tl)
  /\ hist = <<>>
  /\ networks \in SiteNetworks
  /\ containers = {}
  /\ name = <<>>
  /\ outcome = NoOutcome
  /\ calls = <<>>

Construct(n, webroot, confdir, other_mounts) ==
  /\ Len(hist) < MaxSites
  /\ LET r == CopyFoldersToMounts(fs, networks, n, webroot, confdir, other_mounts) IN
       /\ fs' = r.fs
       /\ networks' = r.networks
       /\ hist' = Append(hist, SiteEvent(n, webroot, confdir, other_mounts,
                                         fs, networks, r))
  /\ UNCHANGED <<containers, name, outcome, calls>>

NextSite ==
  \E webroot \in WebrootArgs, confdir \in ConfdirArgs, other \in OtherMountArgs :
    Construct("site1", webroot, confdir, other)

SpecSite == InitSite /\ [][NextSite]_vars

(***************************************************************************)
(* Claims about CopyFoldersToMounts.__init__ (checked under SpecSite).     *)
(***************************************************************************)
\* C9 as stated: a webroot mapping of any size other than one, the empty
\* mapping included, fails with the invalid-mount-spec error (the ValueError
\* of line 250).
C9_ExactlyOneWebroot ==
  \A i \in DOMAIN hist :
    (len(hist[i].webroot) # 1) => (hist[i].exc = "ValueError" /\ hist[i].at = 250)

\* C10 as stated: with confdir omitted (None) and one webroot given, the
\* construction does not fail in planning and the confdir it resolves is
\* Config.default_nginx_config.
C10_DefaultConfdir ==
  \A i \in DOMAIN hist :
    (hist[i].confdir.isNone /\ len(hist[i].webroot) = 1)
      => /\ hist[i].exc \notin {"TypeError", "ValueError", "IndexError"}
         /\ hist[i].resolved_confdir = Some(default_nginx_config)

\* the mappings of a construction are one webroot and one confdir
OneOfEach(h) == len(h.webroot) = 1 /\ ~h.confdir.isNone /\ len(h.confdir) = 1
\* an extra mount of the call has the container path of the webroot or of
\* the confdir as its destination
SharesDestination(h) ==
  /\ ~h.other_mounts.isNone
  /\ \E k \in DOMAIN h.other_mounts.map :
       /\ "destination" \in DOMAIN h.other_mounts.map[k]
       /\ h.other_mounts.map[k].destination \in {NginxHtml, EtcNginx}
\* an extra mount of the call lacks 'destination' or 'incoming_data'
MissingField(h) ==
  /\ ~h.other_mounts.isNone
  /\ \E k \in DOMAIN h.other_mounts.map :
       ~({"destination", "incoming_data"} \subseteq DOMAIN h.other_mounts.map[k])

\* C11 as stated: a construction in which two entries have the same
\* destination in the container fails with the duplicate-mount-target error.
C11_DuplicateTargetRejected ==
  \A i \in DOMAIN hist :
    (OneOfEach(hist[i]) /\ SharesDestination(hist[i]))
      => hist[i].exc = "DuplicateMountTarget"

\* C12 as stated: a construction whose input is invalid (a webroot mapping
\* of a size other than one, an extra mount that lacks a field, two mounts
\* with one destination) raises, and when it raises no network has been
\* created and nothing has been written to the filesystem.
C12_ValidationBeforeMutation ==
  \A i \in DOMAIN hist :
    (\/ len(hist[i].webroot) # 1
     \/ OneOfEach(hist[i]) /\ MissingField(hist[i])
     \/ OneOfEach(hist[i]) /\ SharesDestination(hist[i]))
      => /\ hist[i].exc # "ok"
         /\ hist[i].post_networks = hist[i].pre_networks
         /\ hist[i].post = hist[i].pre

\* C17 as stated: every mount the constructor has staged is read-only, its
\* target is the webroot's path in the container and its source is the host
\* mount point the webroot mapping declares.
C17_MountDescriptors ==
  \A i \in DOMAIN hist :
    \A k \in DOMAIN hist[i].staged :
      /\ hist[i].staged[k].mnt.read_only
      /\ hist[i].staged[k].mnt.target = NginxHtml
      /\ hist[i].staged[k].mnt.source = FirstKey(hist[i].webroot)

Container(id, nm, running, auto_remove) ==
  [id |-> id, name |-> nm, running |-> running, auto_remove |-> auto_remove]
NoContainer == Container(0, "", FALSE, FALSE)
\* the name filter of containers.list(filters={'name': ...}) matches a part
\* of a name
ContainerFilterMatches(pattern, nm) ==
  \/ nm = pattern
  \/ pattern = "site1" /\ nm = "xsite1"
FreshContainerId(conts) == 1 + Cardinality(conts)
\* api.inspect_container(id): what the engine knows of the container now
inspect_container(conts, id) ==
  IF \E c \in conts : c.id = id THEN CHOOSE c \in conts : c.id = id
  ELSE NoContainer

\* what BasicNginXSite.__init__ has done when it ends: the exception and the
\* line that raised it, the steps it began, self.container and self.state
InitResult(conts, exc, at, steps, container, state) ==
  [containers |-> conts, exc |-> exc, at |-> at, steps |-> steps,
   container |-> container, state |-> state]

\* the setter of BasicNginXSite.image: a str splits at ':' or gets the tag
\* 'latest'; line 96 then calls Config.all_image_tags(), a method of the
\* instances of Config (config.py line 26), on the class, with no instance:
\* a TypeError for every image
image_setter(image) == [exc |-> "TypeError", at |-> 96]

\* the container of todo the loop of lines 63-70 takes next
NextContainer(todo) == CHOOSE c \in todo : \A d \in todo : c.id <= d.id
\* lines 63-70 for the containers still to do: stop() (an APIError is
\* passed over), then remove(v=False).  A running container made with
\* auto_remove is removed by the engine when it stops; remove() raises an
\* APIError when the engine was there first (gone)
RECURSIVE remove_each(_, _, _)
remove_each(conts, todo, gone) ==
  IF todo = {} THEN [containers |-> conts, exc |-> "ok"]
  ELSE IF NextContainer(todo).running /\ NextContainer(todo).auto_remove /\ gone
    THEN [containers |-> conts \ {NextContainer(todo)}, exc |-> "APIError"]
  ELSE remove_each(conts \ {NextContainer(todo)}, todo \ {NextContainer(todo)},
                   gone)
\* BasicNginXSite.check_for_existing_instance(name)
check_for_existing_instance(conts, n, gone) ==
  remove_each(conts, {c \in conts : ContainerFilterMatches(n, c.name)}, gone)

\* lines 49-57, check_for_existing_instance having given e
create(e, kwargs, steps) ==
  IF e.exc # "ok"
    THEN InitResult(e.containers, e.exc, 70, steps, NoContainer, NoContainer)
  ELSE InitResult(
         e.containers \cup {Container(FreshContainerId(e.containers), kwargs.name,
                                      FALSE, kwargs.auto_remove)},
         "ok", 0, steps \o <<"CreateContainer", "Snapshot">>,
         Container(FreshContainerId(e.containers), kwargs.name, FALSE,
                   kwargs.auto_remove),
         Container(FreshContainerId(e.containers), kwargs.name, FALSE,
                   kwargs.auto_remove))

\* line 46, the setter of image having given s
evict_existing(s, conts, kwargs, gone, steps) ==
  IF s.exc # "ok"
    THEN InitResult(conts, s.exc, s.at, steps, NoContainer, NoContainer)
  ELSE IF "name" \notin DOMAIN kwargs
    THEN InitResult(conts, "KeyError", 46, steps, NoContainer, NoContainer)
  ELSE create(check_for_existing_instance(conts, kwargs.name, gone), kwargs,
              steps \o <<"EvictExisting">>)

\* BasicNginXSite.__init__(**kwargs), after the steps the caller has taken
BasicNginXSite(conts, kwargs, gone, steps) ==
  IF "image" \notin DOMAIN kwargs
    THEN InitResult(conts, "KeyError", 40, steps, NoContainer, NoContainer)
  ELSE evict_existing(image_setter(kwargs.image), conts, kwargs, gone,
                      steps \o <<"ResolveImage">>)

\* what a call on a site or on the engine has done when it ends
ProvisionResult(f, nets, b, mounts) ==
  [fs |-> f, networks |-> nets, containers |-> b.containers, exc |-> b.exc,
   at |-> b.at, steps |-> b.steps, container |-> b.container,
   state |-> b.state, mounts |-> mounts, value |-> Network(0, "")]
Failed(f, nets, conts, exc, at, steps) ==
  ProvisionResult(f, nets,
                  InitResult(conts, exc, at, steps, NoContainer, NoContainer),
                  <<>>)
\* check_isdir raised
IsException(ret) == ret \notin {"True", "False"}

\* the mounts of lines 143-156 and 191-203, in the order of the mounts kwarg
SiteMounts == <<Mount(EtcNginx, ConfdirPath), Mount(NginxHtml, WebrootPath)>>
\* the kwargs of lines 157-169 and 204-216: no name is passed
SiteKwargs(net) ==
  [image |-> "nginx:latest", auto_remove |-> TRUE, network |-> net.id,
   mounts |-> SiteMounts]

\* lines 143-169, check_isdir of the confdir having given c
blank_super(c, net, conts, gone) ==
  IF IsException(c.ret)
    THEN Failed(c.fs, net.networks, conts, c.ret, 142,
                <<"ResolveNetwork", "PlanMounts">>)
  ELSE ProvisionResult(c.fs, net.networks,
                       BasicNginXSite(conts, SiteKwargs(net.value), gone,
                                      <<"ResolveNetwork", "PlanMounts">>),
                       SiteMounts)
\* a constructor that makes the confdir without the default configuration
blank_confdir_bare(w, net, conts, gone) ==
  IF IsException(w.ret)
    THEN Failed(w.fs, net.networks, conts, w.ret, 141,
                <<"ResolveNetwork", "PlanMounts">>)
  ELSE blank_super(check_isdir(w.fs, ConfdirPath, NoSrc), net, conts, gone)
\* line 142, check_isdir of the webroot having given w
blank_confdir(w, net, conts, gone) ==
  IF IsException(w.ret)
    THEN Failed(w.fs, net.networks, conts, w.ret, 141,
                <<"ResolveNetwork", "PlanMounts">>)
  ELSE blank_super(check_isdir(w.fs, ConfdirPath, default_nginx_config), net,
                   conts, gone)
\* lines 132-141, get_network having given net
blank_webroot(net, f, conts, gone) ==
  IF net.exc # "ok"
    THEN Failed(f, net.networks, conts, net.exc, 131, <<"ResolveNetwork">>)
  ELSE blank_confdir(check_isdir(f, WebrootPath, default_nginx_webroot), net,
                     conts, gone)
\* BlankMounted_BasicNginXSite.__init__(name)
BlankMounted_BasicNginXSite(f, nets, conts, n, gone) ==
  blank_webroot(get_network(nets, n), f, conts, gone)

\* lines 217-221 for the files still to copy, the last copy having given c
RECURSIVE copy_each(_, _)
copy_each(c, files) ==
  IF c.exc # "ok" \/ files = <<>> THEN c
  ELSE copy_each(copy(c.fs, Head(files), WebrootPath), Tail(files))
\* lines 217-221, the copies having given c
files_copied(c, b, nets) ==
  ProvisionResult(c.fs, nets,
                  [b EXCEPT !.exc = c.exc,
                            !.at = IF c.exc = "ok" THEN 0 ELSE 218],
                  SiteMounts)
\* lines 217-221, BasicNginXSite.__init__ having given b
copy_files(b, f, nets, files) ==
  IF b.exc # "ok" THEN ProvisionResult(f, nets, b, SiteMounts)
  ELSE files_copied(copy_each([fs |-> f, exc |-> "ok"], files), b, nets)
\* lines 191-216, check_isdir of the confdir having given c
files_super(c, net, conts, files, gone) ==
  IF IsException(c.ret)
    THEN Failed(c.fs, net.networks, conts, c.ret, 190,
                <<"ResolveNetwork", "PlanMounts">>)
  ELSE copy_files(BasicNginXSite(conts, SiteKwargs(net.value), gone,
                                 <<"ResolveNetwork", "PlanMounts">>),
                  c.fs, net.networks, files)
\* line 190, check_isdir of the webroot having given w
files_confdir(w, net, conts, files, gone) ==
  IF IsException(w.ret)
    THEN Failed(w.fs, net.networks, conts, w.ret, 189,
                <<"ResolveNetwork", "PlanMounts">>)
  ELSE files_super(check_isdir(w.fs, ConfdirPath, NoSrc), net, conts, files,
                   gone)
\* lines 186-189, get_network having given net
files_webroot(net, f, conts, files, gone) ==
  IF net.exc # "ok"
    THEN Failed(f, net.networks, conts, net.exc, 185, <<"ResolveNetwork">>)
  ELSE files_confdir(check_isdir(f, WebrootPath, NoSrc), net, conts, files, gone)
\* CopyFilesToMountedWebroot_BasicNginxSite.__init__(name, *files)
CopyFilesToMountedWebroot_BasicNginxSite(f, nets, conts, n, files, gone) ==
  files_webroot(get_network(nets, n), f, conts, files, gone)

RunEvent(op, n, args, f, nets, conts, r) ==
  [op |-> op, name |-> n, args |-> args, pre |-> f, pre_networks |-> nets,
   pre_containers |-> conts, post |-> r.fs, post_networks |-> r.networks,
   post_containers |-> r.containers, exc |-> r.exc, at |-> r.at,
   steps |-> r.steps, container |-> r.container, state |-> r.state,
   mounts |-> r.mounts, value |-> r.value]

\* the default webroot and the default configuration on disk: both absent,
\* an empty webroot, or files and a subdirectory in each
WebrootTree ==
  (<<>> :> DIR) @@ (<<"a">> :> File(1)) @@ (<<"b">> :> DIR)
    @@ (<<"b", "a">> :> File(1))
ConfigTree ==
  (<<>> :> DIR) @@ (<<"a">> :> File(2)) @@ (<<"b">> :> DIR)
    @@ (<<"b", "b">> :> File(1))
ProvisionTrees ==
  { <<<<>>, <<>>>>, <<(<<>> :> DIR), ConfigTree>>, <<WebrootTree, ConfigTree>> }
ProvisionNetworks ==
  { {},
    {Network(1, "site1_network")},
    {Network(1, "xsite1_network")},
    {Network(1, "site1_network"), Network(2, "site1_network")} }
ProvisionContainers ==
  { {},
    {Container(1, "site1", TRUE, TRUE)},
    {Container(1, "site1", FALSE, FALSE), Container(2, "xsite1", TRUE, TRUE)} }
\* the kwargs of the site the tests construct, and kwargs without an image
TestKwargs ==
  { [image |-> "nginx:latest", name |-> "site1", auto_remove |-> TRUE,
     network |-> 1],
    [name |-> "site1", auto_remove |-> TRUE, network |-> 1] }
FileArgs == { <<>>, <<default_nginx_webroot \o <<"a">> >> }

InitProvision ==
  /\ \E t \in ProvisionTrees :
       fs = Place(Place(BaseFs("none"), default_nginx_webroot, t[1]),
                  default_nginx_config, t[2])
  /\ hist = <<>>
  /\ networks \in ProvisionNetworks
  /\ containers \in ProvisionContainers
  /\ name = <<>>
  /\ outcome = NoOutcome
  /\ calls = <<>>

Ran(r, ev) ==
  /\ fs' = r.fs
  /\ networks' = r.networks
  /\ containers' = r.containers
  /\ hist' = Append(hist, ev)
  /\ UNCHANGED <<name, outcome, calls>>

ProvisionBlank(n, gone) ==
  /\ Len(hist) < MaxRuns
  /\ LET r == BlankMounted_BasicNginXSite(fs, networks, containers, n, gone) IN
       Ran(r, RunEvent("BlankMounted_BasicNginXSite", n, <<>>, fs, networks,
                       containers, r))

ProvisionFiles(n, files, gone) ==
  /\ Len(hist) < MaxRuns
  /\ LET r == CopyFilesToMountedWebroot_BasicNginxSite(fs, networks, containers,
                                                       n, files, gone) IN
       Ran(r, RunEvent("CopyFilesToMountedWebroot_BasicNginxSite", n, files, fs,
                       networks, containers, r))

\* BasicNginXSite(**kwargs), as the tests construct it
ConstructSite(kwargs, gone) ==
  /\ Len(hist) < MaxRuns
  /\ LET r == ProvisionResult(fs, networks,
                              BasicNginXSite(containers, kwargs, gone, <<>>),
                              <<>>) IN
       Ran(r, RunEvent("BasicNginXSite", kwargs.name, kwargs, fs, networks,
                       containers, r))

CheckForExistingInstance(n, gone) ==
  /\ Len(hist) < MaxRuns
  /\ LET e == check_for_existing_instance(containers, n, gone)
         r == ProvisionResult(fs, networks,
                              InitResult(e.containers, e.exc,
                                         IF e.exc = "ok" THEN 0 ELSE 70, <<>>,
                                         NoContainer, NoContainer),
                              <<>>) IN
       Ran(r, RunEvent("check_for_existing_instance", n, <<>>, fs, networks,
                       containers, r))

GetNetwork(n) ==
  /\ Len(hist) < MaxRuns
  /\ LET net == get_network(networks, n)
         r == [ProvisionResult(fs, net.networks,
                               InitResult(containers, net.exc,
                                          IF net.exc = "ok" THEN 0 ELSE 114,
                                          <<>>, NoContainer, NoContainer),
                               <<>>) EXCEPT !.value = net.value] IN
       Ran(r, RunEvent("get_network", n, <<>>, fs, networks, containers, r))

\* rmtree of the source of each mount of a site
RmtreeMounts ==
  /\ Len(hist) < MaxRuns
  /\ isdir(fs, WebrootPath) /\ isdir(fs, ConfdirPath)
  /\ LET r == Failed(rmtree(rmtree(fs, WebrootPath), ConfdirPath), networks,
                     containers, "ok", 0, <<>>) IN
       Ran(r, RunEvent("rmtree", "site1", <<>>, fs, networks, containers, r))

NextProvision ==
  \/ \E gone \in BOOLEAN : ProvisionBlank("site1", gone)
  \/ \E files \in FileArgs, gone \in BOOLEAN : ProvisionFiles("site1", files, gone)
  \/ \E kwargs \in TestKwargs, gone \in BOOLEAN : ConstructSite(kwargs, gone)
  \/ \E gone \in BOOLEAN : CheckForExistingInstance("site1", gone)
  \/ \E n \in {"site1", "xsite1"} : GetNetwork(n)
  \/ RmtreeMounts

SpecProvision == InitProvision /\ [][NextProvision]_vars

(***************************************************************************)
(* Claims about the sites (checked under SpecProvision).                   *)
(***************************************************************************)
IsConstruction(h) ==
  h.op \in {"BasicNginXSite", "BlankMounted_BasicNginXSite",
            "CopyFilesToMountedWebroot_BasicNginxSite"}
\* the containers of conts that have the name n
Named(conts, n) == {c \in conts : c.name = n}

\* C13 as stated: a BlankMounted_BasicNginXSite construction for a name that
\* has a container, once it has its network and directories, returns; none of
\* the containers the name had is left, and the name has exactly one
\* container.
C13_DestructiveIdempotent ==
  \A i \in DOMAIN hist :
    LET h == hist[i] IN
    (/\ h.op = "BlankMounted_BasicNginXSite"
     /\ Named(h.pre_containers, h.name) # {}
     /\ "ResolveImage" \in {h.steps[k] : k \in DOMAIN h.steps})
      => /\ h.exc = "ok"
         /\ Named(h.pre_containers, h.name) \cap h.post_containers = {}
         /\ Cardinality(Named(h.post_containers, h.name)) = 1

\* the networks of nets whose name is '{n}_network'
NetworksOf(nets, n) == {net \in nets : net.name = NetworkName(n)}

\* C14 as stated: get_network fails when more than one network has the name
\* '{name}_network'; otherwise it returns the one network of that name,
\* which it creates only when there is none.
C14_OneNetwork ==
  \A i \in DOMAIN hist :
    LET h == hist[i] IN
    h.op = "get_network"
      => IF Cardinality(NetworksOf(h.pre_networks, h.name)) > 1
           THEN h.exc = "AssertionError"
           ELSE /\ h.exc = "ok"
                /\ NetworksOf(h.post_networks, h.name) = {h.value}
                /\ NetworksOf(h.pre_networks, h.name) # {}
                     => h.post_networks = h.pre_networks

\* C15 as stated: a site constructed as the tests construct it exists, and
\* in every state after its construction its state is what inspecting its
\* container by id gives.
C15_StateIsFreshInspect ==
  \A i \in DOMAIN hist :
    LET h == hist[i] IN
    (h.op = "BasicNginXSite" /\ {"image", "name"} \subseteq DOMAIN h.args)
      => /\ h.exc = "ok"
         /\ h.state = inspect_container(containers, h.container.id)

\* the directories of the site are gone and the default trees are there
Deleted(h) ==
  /\ ~access(h.pre, WebrootPath) /\ ~access(h.pre, ConfdirPath)
  /\ isdir(h.pre, default_nginx_webroot) /\ isdir(h.pre, default_nginx_config)

C18_DefaultConfiguration ==
  \A i \in DOMAIN hist :
    LET h == hist[i] IN
    (/\ h.op = "CopyFilesToMountedWebroot_BasicNginxSite"
     /\ ~access(h.pre, InstanceDir)
     /\ isdir(h.pre, default_nginx_config)
     /\ h.at # 185)
      => /\ isdir(h.post, ConfdirPath)
         /\ Tree(h.post, ConfdirPath) = Tree(h.pre, default_nginx_config)

\* the place of a step in the order the claim gives
StepRank(step) ==
  CASE step = "ResolveImage" -> 1
    [] step = "EvictExisting" -> 2
    [] step = "ResolveNetwork" -> 3
    [] step = "PlanMounts" -> 4
    [] step = "CreateContainer" -> 5
    [] step = "ApplyArchives" -> 6
    [] step = "Snapshot" -> 7

\* C19 as stated: the steps a construction began come in the order
\* ResolveImage, EvictExisting, ResolveNetwork, PlanMounts, CreateContainer,
\* ApplyArchives, Snapshot.
C19_StepOrder ==
  \A i \in DOMAIN hist :
    IsConstruction(hist[i])
      => \A j, k \in DOMAIN hist[i].steps :
           j < k => StepRank(hist[i].steps[j]) < StepRank(hist[i].steps[k])

(***************************************************************************)
(* SpecInterleave: two calls of get_mount_for, for the webroot and for the *)
(* confdir of a site, whose steps interleave.  A step is one test or one   *)
(* change of the filesystem; calls[p] holds where the call p is.           *)
(***************************************************************************)
Stagers == {1, 2}
Call(pc, source, destination, mount_point, files, exc, value) ==
  [pc |-> pc, source |-> source, destination |-> destination,
   mount_point |-> mount_point, files |-> files, exc |-> exc, value |-> value]
\* the call c at pc, and the call c ended with exc and value
At(c, pc) == [c EXCEPT !.pc = pc]
Ended(c, exc, value) == [c EXCEPT !.pc = "done", !.exc = exc, !.value = value]
\* line 317, check_isdir(tmpstore) having returned: the branch of the source
AfterCheck(c) == At(c, IF c.source.type = "str" THEN "open" ELSE "makedirs")
\* lines 339-350: what the call c returns
ResultOf(c) ==
  Staged(Mount(c.destination, c.mount_point), ReturnedArchive(c.mount_point))

\* the sources each call may be given: its default tree, or an archive
InterleaveSources ==
  { <<s1, s2>> : s1 \in {StrSource(default_nginx_webroot),
                         TarSource({Member(<<"a">>, 1)})},
                 s2 \in {StrSource(default_nginx_config),
                         TarSource({Member(<<"b">>, 2)})} }

InitInterleave ==
  /\ \E t \in ProvisionTrees, tl \in TmpLayouts :
       fs = TmpFs(Place(Place(BaseFs("alone"), default_nginx_webroot, t[1]),
                        default_nginx_config, t[2]), tl)
  /\ hist = <<>>
  /\ networks = {}
  /\ containers = {}
  /\ name = <<>>
  /\ outcome = NoOutcome
  /\ \E s \in InterleaveSources :
       calls = <<Call("isdir", s[1], NginxHtml, WebrootPath, {}, "ok", NoStaged),
                 Call("isdir", s[2], EtcNginx, ConfdirPath, {}, "ok", NoStaged)>>

Step(p, c, f) ==
  /\ calls' = [calls EXCEPT ![p] = c]
  /\ fs' = f
  /\ UNCHANGED <<hist, networks, containers, name, outcome>>

\* check_isdir line 102 (and line 119, where src is '')
IsDir(p) ==
  /\ calls[p].pc = "isdir"
  /\ Step(p, IF isdir(fs, tmpstore) THEN AfterCheck(calls[p])
             ELSE At(calls[p], "access"), fs)

\* check_isdir lines 103-106
Access(p) ==
  /\ calls[p].pc = "access"
  /\ Step(p, IF access(fs, tmpstore)
               THEN Ended(calls[p], "FileExistsError", NoStaged)
             ELSE At(calls[p], "mkdir"), fs)

\* check_isdir lines 114-118
Mkdir(p) ==
  /\ calls[p].pc = "mkdir"
  /\ LET m == makedirs(fs, tmpstore) IN
       Step(p, IF m.exc = "ok" THEN AfterCheck(calls[p])
               ELSE Ended(calls[p], m.exc, NoStaged), m.fs)

\* lines 318-320: tarfile.open(..., 'w') makes the archive, empty
Open(p) ==
  /\ calls[p].pc = "open"
  /\ IF isdir(fs, tmpstore)
       THEN Step(p, At(calls[p], "list"),
                 Put(fs, WrittenArchive(calls[p].mount_point), Tar({})))
       ELSE Step(p, Ended(calls[p], "FileNotFoundError", NoStaged), fs)

\* line 321: list_recursively(source)
List(p) ==
  /\ calls[p].pc = "list"
  /\ Step(p, [At(calls[p], "add") EXCEPT
                !.files = list_recursively(fs, calls[p].source.path)], fs)

\* lines 321-322 and 339-350: the files are added, the call returns
Add(p) ==
  /\ calls[p].pc = "add"
  /\ LET r == add_files(fs, calls[p].files, calls[p].mount_point,
                        ResultOf(calls[p])) IN
       Step(p, Ended(calls[p], r.exc, r.value), r.fs)

\* lines 324-350: the branch of an incoming archive, from os.makedirs on
Restage(p) ==
  /\ calls[p].pc = "makedirs"
  /\ LET r == restage(makedirs(fs, tmpstore), calls[p].source,
                      calls[p].mount_point, ResultOf(calls[p])) IN
       Step(p, Ended(calls[p], r.exc, r.value), r.fs)

NextInterleave ==
  \E p \in Stagers :
    \/ IsDir(p)
    \/ Access(p)
    \/ Mkdir(p)
    \/ Open(p)
    \/ List(p)
    \/ Add(p)
    \/ Restage(p)

SpecInterleave == InitInterleave /\ [][NextInterleave]_vars

(***************************************************************************)
(* Claims about interleaved stagings (checked under SpecInterleave).       *)
(***************************************************************************)
\* C23 as stated: when both calls have ended and the staging directory is a
\* directory, each call whose source is a directory on disk has returned,
\* and the archive it wrote holds exactly the files of its own source.
C23_NoInterference ==
  (\A p \in Stagers : calls[p].pc = "done") /\ isdir(fs, tmpstore)
    => \A p \in Stagers :
         (calls[p].source.type = "str" /\ isdir(fs, calls[p].source.path))
           => /\ calls[p].exc = "ok"
              /\ IsTarAt(fs, WrittenArchive(calls[p].mount_point))
              /\ fs[WrittenArchive(calls[p].mount_point)].members
                   = TarMembers(fs, list_recursively(fs, calls[p].source.path))

====
